---- MODULE Spec2Model ----
(***************************************************************************)
(* A model of pin (BioBox/pin): the viewport engine of pin/ui.py           *)
(* (InfoWindow, InfoSession.run) and the ordered dictionary of             *)
(* pin/utils.py (DList), and the loading of an Info file by pin/nodes.py   *)
(* (FileBuffer, Node).                                                     *)
(*                                                                         *)
(* Reading of the source.  pin/ui.py is an unfinished port of GNU Info's   *)
(* window.c.  Every comparison, index expression, assignment, early        *)
(* return and the order of statements is modelled exactly as written, with *)
(* Python's semantics for them: a negative list index counts from the end, *)
(* an index outside the list raises IndexError, next() over an exhausted   *)
(* generator raises StopIteration, an unbound local raises                 *)
(* UnboundLocalError.  An exception leaves InfoSession.run, which has no   *)
(* handler: the session stops (status = "fault").                          *)
(* Where a statement only misnames what it refers to, it is read as        *)
(* naming it:                                                              *)
(*   ui.py 493-556  "x =" broken over two lines is the assignment;         *)
(*   ui.py 312      "return self.point := e" stores e in point, returns it;*)
(*   ui.py 325-326  life_map is line_map, .used is "offsets is not empty"; *)
(*   ui.py 357      line_starts(i) is line_starts[i];                      *)
(*   ui.py 276,426  the window's height is the session's (ui.py 470);      *)
(*   ui.py 230      node.content is node.contents; line_count is the value *)
(*                  stored there (the property at 247-249 has no body);    *)
(*   ui.py 232      line_map starts as LineMap's defaults (ui.py 205-207); *)
(*   ui.py 501      pad.rows is the row count given to newpad (ui.py 225); *)
(*   ui.py 539,556  cur_window.file_buffer / .up are those of its node;    *)
(*   ui.py 547-556  file_buffer.before/after are file_buffer.nodes', and   *)
(*                  take the node's name;                                  *)
(*   ui.py 519      self.show_point() is cur_window.show_point();          *)
(*   ui.py 487      keys is the session's input_map (ui.py 463-464);       *)
(*   ui.py 308,341,436  refresh / display_cursor_at_point only draw.       *)
(***************************************************************************)
EXTENDS Integers, Sequences, FiniteSets, TLC

NL == "\n"

(* ------------------------------ bounds ------------------------------ *)
MaxHeight == 3      \* screen heights 1..MaxHeight
MaxStarts == 9      \* cap on len(line_starts), which the code never clears
MaxDesired == 6     \* page_top is assigned values in -1..MaxDesired
MaxKeys == 3        \* DList sizes 0..MaxKeys
MaxCount == 3       \* before/after counts -1..MaxCount

(* --------------------------- Python helpers -------------------------- *)
Min(S) == CHOOSE x \in S : \A y \in S : x <= y
Max(S) == CHOOSE x \in S : \A y \in S : x >= y

\* list[i]: does not raise IndexError
PyInRange(s, i) == -Len(s) <= i /\ i < Len(s)
\* list[i], a negative i counting from the end
PyAt(s, i) == IF i >= 0 THEN s[i + 1] ELSE s[Len(s) + i + 1]
\* a // b for b > 0 (floor division)
FloorDiv(a, b) == IF a >= 0 THEN a \div b ELSE -((-a + b - 1) \div b)

\* str.count('\n')
CountNL(c) == Cardinality({i \in 1..Len(c) : c[i] = NL})

\* the lengths of the lines of str.splitlines(True)
RECURSIVE LineLens(_)
LineLens(c) ==
    IF c = <<>> THEN <<>>
    ELSE LET nls == {i \in 1..Len(c) : c[i] = NL}
         IN  IF nls = {} THEN <<Len(c)>>
             ELSE <<Min(nls)>> \o LineLens(SubSeq(c, Min(nls) + 1, Len(c)))

(* ----------------------------- the document -------------------------- *)
\* A loaded file's nodes in tag-table order.  Contents are kept as characters;
\* "h" stands for header text, "a" for body text, "s" for the separator that
\* ends a node's contents (nodes.py 372-378).
Doc ==
    << [name |-> "Top", next |-> "Usage", prev |-> "", up |-> "",
        contents |-> <<"h","h",NL, "a","a","a",NL, NL, "a","a",NL, "s">>],
       [name |-> "Intro", next |-> "Missing", prev |-> "Top", up |-> "Top",
        contents |-> <<"h",NL, "s">>],
       [name |-> "Usage", next |-> "", prev |-> "Top", up |-> "Top",
        contents |-> <<"h","h","h",NL, "a",NL, "a","a","a","a",NL, "s">>] >>

NodeIds == 1..Len(Doc)

VARIABLES
    windows,    \* InfoSession.windows: a sequence of InfoWindow records
    cur,        \* index of InfoSession.cur_window in windows, -1 while unset
    height,     \* InfoSession.height
    status,     \* "running", or "fault" once an exception left the loop
    refresh,    \* whether the last operation reached scr.refresh() (ui.py 308)
    act,        \* the last operation: its name, argument and window
    vstart,     \* the column point had when the running sequence of
                \* next-line/prev-line began, -1 outside such a sequence
    dl,         \* a DList: a sequence of [key, value] in insertion order
    dl_call,    \* the call made on dl: [op, k, count]
    dl_res,     \* its outcome: [state, val]
    contents,   \* FileBuffer.contents: the file, as a sequence of lines
    tags,       \* FileBuffer.tags: a sequence of [name, nodestart]
    nodes,      \* FileBuffer.nodes: a DList of node name -> Node
    load,       \* where FileBuffer.__init__ is: [phase, next, error]
    call,       \* a call of a function of the program: [op, ...arguments]
    ret,        \* what the call returned or raised
    opening     \* InfoSession.__init__ at work: [phase, refs, loaded_buffers,
                \* windows, buffers]

fbvars == <<contents, tags, nodes, load>>
uivars == <<windows, cur, height, status, refresh, act, vstart>>
dlvars == <<dl, dl_call, dl_res>>
xvars == <<call, ret, opening>>
vars == <<windows, cur, height, status, refresh, act, vstart, dl, dl_call,
          dl_res, contents, tags, nodes, load, call, ret, opening>>

(* ------------------------------ InfoWindow --------------------------- *)
EmptyLineMap == [node |-> 0, nline |-> 0, offsets |-> <<>>]

\* InfoWindow.__init__
NewWindow(n) ==
    [node |-> n,
     pad_rows |-> CountNL(Doc[n].contents),
     page_top |-> 0,
     point |-> 0,
     goal_column |-> -1,
     hist |-> << [node |-> n, page_top |-> 0, point |-> 0] >>,
     line_count |-> CountNL(Doc[n].contents) + 1,
     line_starts |-> <<>>,
     line_map |-> EmptyLineMap]

\* outcomes of a method: the window it leaves, whether it returned (ok) or
\* raised, and whether it reached scr.refresh()
Ok(w) == [win |-> w, ok |-> TRUE, refresh |-> FALSE]
Raise(w) == [win |-> w, ok |-> FALSE, refresh |-> FALSE]
\* the outcome q of what follows a call that reached scr.refresh() or not
After(refreshed, q) == [q EXCEPT !.refresh = refreshed \/ q.refresh]

\* InfoWindow.line_of_point
LineOfPoint(w) ==
    LET hits == {i \in 1..Len(w.line_starts) : w.line_starts[i] >= w.point}
    IN  IF hits = {} THEN [ok |-> FALSE, val |-> 0]
        ELSE [ok |-> TRUE, val |-> (Min(hits) - 1) - 1]

\* the clamping at the head of the page_top setter
ClampDesired(w, desired) ==
    IF desired < 0 THEN 0
    ELSE IF desired > w.line_count THEN w.line_count - 1
    ELSE desired

\* the test without its "amount == 1"
ScrollSkipped_NoOne(amount, h) ==
    amount >= h \/ (h - amount) * 10 < h

\* the test that skips the partial scroll
ScrollSkipped(amount, h) ==
    amount = 1 \/ amount >= h \/ (h - amount) * 10 < h

\* the tail of the page_top setter: scroll or not
SetterScroll(w, old_pt, desired, h) ==
    LET amount == IF old_pt < desired THEN desired - old_pt
                  ELSE old_pt - desired
    IN  IF ScrollSkipped(amount, h) THEN Ok(w)
        ELSE IF ~PyInRange(w.line_starts, w.page_top) THEN Raise(w)
        ELSE [win |-> w, ok |-> TRUE, refresh |-> TRUE]

\* InfoWindow.page_top (setter) from "old_pt = self.page_top" on; _page_top
\* itself is assigned nowhere, so self.page_top is old_pt throughout
SetterMove(w, desired, h) ==
    LET old_pt == w.page_top
        pl == LineOfPoint(w)
        bottom == w.page_top + h - 1
    IN  IF ~pl.ok THEN Raise(w)
        ELSE IF pl.val < w.page_top THEN
            IF ~PyInRange(w.line_starts, w.page_top) THEN Raise(w)
            ELSE SetterScroll(
                    [w EXCEPT !.point = PyAt(w.line_starts, w.page_top)],
                    old_pt, desired, h)
        ELSE IF pl.val < w.page_top + h THEN Ok(w)
        ELSE IF ~PyInRange(w.line_starts, bottom) THEN Raise(w)
        ELSE SetterScroll([w EXCEPT !.point = PyAt(w.line_starts, bottom)],
                          old_pt, desired, h)

\* the setter as it would be with "self._page_top = desired" after old_pt
PageTopSetter_Stores(w, desired0, h) ==
    IF w.page_top = ClampDesired(w, desired0) THEN Ok(w)
    ELSE SetterMove([w EXCEPT !.page_top = ClampDesired(w, desired0)],
                    ClampDesired(w, desired0), h)

\* the setter without "if self.page_top == desired: return"
PageTopSetter_NoEarlyReturn(w, desired0, h) ==
    SetterMove(w, ClampDesired(w, desired0), h)

\* InfoWindow.page_top (setter)
PageTopSetter(w, desired0, h) ==
    IF w.page_top = ClampDesired(w, desired0) THEN Ok(w)
    ELSE SetterMove(w, ClampDesired(w, desired0), h)

\* InfoWindow._calculate_line_starts: appends to line_starts
RECURSIVE AppendStarts(_, _, _)
AppendStarts(ls, lens, c) ==
    IF lens = <<>> THEN ls
    ELSE AppendStarts(Append(ls, c), Tail(lens), c + Head(lens))

CalculateLineStarts(w) ==
    [w EXCEPT !.line_starts =
        AppendStarts(w.line_starts, LineLens(Doc[w.node].contents), 0)]

\* InfoWindow.node (setter)
NodeSetter(w, value, h) ==
    LET r == PageTopSetter(CalculateLineStarts([w EXCEPT !.node = value]), 0, h)
    IN  IF r.ok THEN After(r.refresh, Ok([r.win EXCEPT !.point = 0])) ELSE r

\* InfoWindow._compute_line_map
ComputeLineMap(w) ==
    LET pl == LineOfPoint(w)
        line == pl.val
        w1 == [w EXCEPT !.line_map =
                  [node |-> w.node, nline |-> line, offsets |-> <<>>]]
        s == PyAt(w.line_starts, line)
        n == Len(Doc[w.node].contents)
    IN  IF ~pl.ok THEN Raise(w)
        ELSE IF /\ w.line_map.node = w.node
                /\ w.line_map.nline = line
                /\ w.line_map.offsets # <<>> THEN Ok(w)
        ELSE IF line + 1 < w.line_count /\ ~PyInRange(w.line_starts, line + 1)
             THEN Raise(w1)
        ELSE IF ~PyInRange(w.line_starts, line) THEN Raise(w1)
        ELSE Ok([w1 EXCEPT !.line_map.offsets =
                    [i \in 1..(IF n > s THEN n - s ELSE 0) |-> (i - 1) + s]])

\* a method's value: the window it leaves, whether it returned, what it returned
Val(w, v) == [win |-> w, ok |-> TRUE, val |-> v]
NoVal(w) == [win |-> w, ok |-> FALSE, val |-> 0]

\* InfoWindow.point_to_column
PointToColumn(w, point) ==
    LET r == ComputeLineMap(w)
        offs == r.win.line_map.offsets
        hits == {i \in 1..Len(offs) : offs[i] >= point}
    IN  IF ~r.ok THEN NoVal(r.win)
        ELSE IF offs = <<>> THEN NoVal(r.win)
        ELSE IF point < offs[1] THEN Val(r.win, 0)
        ELSE IF hits = {} THEN NoVal(r.win)
        ELSE Val(r.win, Min(hits) - 1)

\* InfoWindow.cursor_column
CursorColumn(w) ==
    LET r == PointToColumn(w, w.point)
    IN  IF r.ok THEN Val([r.win EXCEPT !.point = r.val], r.val) ELSE r

\* InfoWindow.point_next_line
PointNextLine(w) ==
    LET pl == LineOfPoint(w)
    IN  IF ~pl.ok THEN Raise(w)
        ELSE IF ~PyInRange(w.line_starts, pl.val + 1) THEN Raise(w)
        ELSE ComputeLineMap(
                [w EXCEPT !.point = PyAt(w.line_starts, pl.val + 1)])

\* InfoWindow.point_prev_line
PointPrevLine(w) ==
    LET pl == LineOfPoint(w)
    IN  IF ~pl.ok THEN Raise(w)
        ELSE IF ~PyInRange(w.line_starts, pl.val - 1) THEN Raise(w)
        ELSE ComputeLineMap(
                [w EXCEPT !.point = PyAt(w.line_starts, pl.val - 1)])

\* InfoWindow.adjust_pagetop
AdjustPagetop(w, h) ==
    LET pl == LineOfPoint(w)
        line == pl.val
        pt_center == line - FloorDiv(h - 1, 2)
    IN  IF ~pl.ok THEN Raise(w)
        ELSE IF line < w.page_top \/ line - w.page_top > h - 1
             THEN PageTopSetter(w, IF pt_center < 0 THEN 0 ELSE pt_center, h)
        ELSE Ok(w)

\* InfoWindow.show_point
ShowPoint(w, h) == AdjustPagetop(w, h)

\* InfoWindow.move_to_goal: the local goal it computes is not used
MoveToGoal(w, h) ==
    IF ~PyInRange(w.line_map.offsets, w.goal_column) THEN Raise(w)
    ELSE ShowPoint(
            [w EXCEPT !.point = PyAt(w.line_map.offsets, w.goal_column)], h)

\* InfoWindow.goto_percentage: desire is bound only for percent <= 0 and
\* percent >= 100; make_modeline draws the status text
GotoPercentage(w, percent, h) ==
    LET desire == IF percent >= 100 THEN w.line_count ELSE 0
    IN  IF percent > 0 /\ percent < 100 THEN Raise(w)
        ELSE LET r == PageTopSetter(w, desire, h)
                 v == r.win
             IN  IF ~r.ok THEN r
                 ELSE IF ~PyInRange(v.line_starts, v.page_top)
                      THEN After(r.refresh, Raise(v))
                 ELSE After(r.refresh,
                            Ok([v EXCEPT !.point =
                                   PyAt(v.line_starts, v.page_top)]))

(* -------------------------------- DList ------------------------------ *)
DKeys(d) == [i \in 1..Len(d) |-> d[i].key]
DValues(d) == [i \in 1..Len(d) |-> d[i].value]

Raised(e) == [state |-> "raised", val |-> 0, error |-> e]
Returned(v) == [state |-> "returned", val |-> v]

\* list.index
ListIndex(l, k) == Min({i \in 1..Len(l) : l[i] = k}) - 1

\* DList.__getitem__ with an int
DListGetInt(d, k) ==
    IF PyInRange(DValues(d), k) THEN Returned(PyAt(DValues(d), k))
    ELSE Raised("IndexError")

\* DList.__getitem__ with a str
DListGetStr(d, k) ==
    IF \E i \in 1..Len(d) : d[i].key = k
    THEN Returned(d[ListIndex(DKeys(d), k) + 1].value)
    ELSE Raised("KeyError")

\* before with after's index arithmetic
DListBefore_Plus(d, k, count) ==
    IF ~\E i \in 1..Len(d) : d[i].key = k THEN Raised("ValueError")
    ELSE DListGetInt(d, ListIndex(DKeys(d), k) + count)

\* DList.before
DListBefore(d, k, count) ==
    IF ~\E i \in 1..Len(d) : d[i].key = k THEN Raised("ValueError")
    ELSE DListGetInt(d, ListIndex(DKeys(d), k) - count)

\* DList.after
DListAfter(d, k, count) ==
    IF ~\E i \in 1..Len(d) : d[i].key = k THEN Raised("ValueError")
    ELSE DListGetInt(d, ListIndex(DKeys(d), k) + count)

\* FileBuffer.nodes: node name -> node, in tag-table order (nodes.py 233-236)
DocNodes == [i \in 1..Len(Doc) |-> [key |-> Doc[i].name, value |-> i]]

(* ------------------------------- session ----------------------------- *)
IdleDL == <<>>
IdleCall == [op |-> "none", k |-> "", count |-> 0]
IdleRes == [state |-> "idle", val |-> 0]
IdleLoad == [phase |-> "idle", next |-> 0, error |-> ""]
NoCall == [op |-> "none"]
NoRet == [state |-> "idle"]
NotOpening == [phase |-> "idle"]
\* nothing is being called or opened
XIdle == call = NoCall /\ ret = NoRet /\ opening = NotOpening

\* the lines of a node as the text has them
TrueStarts(n) == AppendStarts(<<>>, LineLens(Doc[n].contents), 0)
TrueLine(n, p) ==
    Max({0} \cup {i \in 0..(Len(TrueStarts(n)) - 1) : TrueStarts(n)[i + 1] <= p})
TrueCol(n, p) == p - TrueStarts(n)[TrueLine(n, p) + 1]
LineWidth(n, l) == LineLens(Doc[n].contents)[l + 1]

Vertical == {"next-line", "prev-line"}

\* InfoSession.__init__ for a session started on one reference: one window,
\* on any node of the document
Init ==
    /\ \E n \in NodeIds : windows = <<NewWindow(n)>>
    /\ cur = -1
    /\ height \in 1..MaxHeight
    /\ status = "running"
    /\ refresh = FALSE
    /\ act = [name |-> "init", arg |-> 0, win |-> 0]
    /\ vstart = -1
    /\ dl = IdleDL /\ dl_call = IdleCall /\ dl_res = IdleRes
    /\ contents = <<>> /\ tags = <<>> /\ nodes = <<>> /\ load = IdleLoad
    /\ XIdle

Running == status = "running" /\ dl_res.state = "idle"

\* the state after a method of window i ended with outcome r
Finish(i, r, name, arg) ==
    /\ windows' = [windows EXCEPT ![i] = r.win]
    /\ status' = IF r.ok THEN "running" ELSE "fault"
    /\ refresh' = r.refresh
    /\ act' = [name |-> name, arg |-> arg, win |-> i]
    /\ vstart' = IF name \notin Vertical THEN -1
                 ELSE IF act.name \in Vertical /\ act.win = i THEN vstart
                 ELSE TrueCol(windows[i].node, windows[i].point)
    /\ UNCHANGED <<cur, height, dl, dl_call, dl_res, fbvars, xvars>>

\* assigning to the page_top property of a window
SetPageTop ==
    /\ Running
    /\ \E i \in 1..Len(windows), d \in -1..MaxDesired :
          Finish(i, PageTopSetter(windows[i], d, height), "page_top", d)

\* calling goto_percentage on a window
Percents == {-10, 0, 50, 100, 150}

GotoPercent ==
    /\ Running
    /\ \E i \in 1..Len(windows), p \in Percents :
          Finish(i, GotoPercentage(windows[i], p, height), "goto_percentage", p)

\* InfoSession.run, a digit key: cur_window = windows[int(chr(raw_key))];
\* every digit past the last window acts as the first such digit does
DigitKey ==
    /\ Running
    /\ \E d \in 0..Len(windows) :
          /\ cur' = IF d < Len(windows) THEN d ELSE cur
          /\ status' = IF d < Len(windows) THEN "running" ELSE "fault"
          /\ act' = [name |-> "digit", arg |-> d, win |-> 0]
          /\ refresh' = FALSE
          /\ vstart' = -1
          /\ UNCHANGED <<windows, height, dl, dl_call, dl_res, fbvars, xvars>>

\* InfoSession.run, a case of the match statement acting on cur_window, which
\* no statement before the first digit key has set; r is the outcome of the
\* case's statements on CurWin
CurWin == windows[cur + 1]

Dispatch(name, arg, r) ==
    /\ Running
    /\ IF cur = -1
       THEN /\ status' = "fault"
            /\ act' = [name |-> name, arg |-> 0, win |-> 0]
            /\ refresh' = FALSE
            /\ vstart' = -1
            /\ UNCHANGED <<windows, cur, height, dl, dl_call, dl_res, fbvars, xvars>>
       ELSE Finish(cur + 1, r, name, arg)

\* the page_top assignments of run; act.arg is the value assigned
Assign(name, desired) ==
    Dispatch(name, desired, PageTopSetter(CurWin, desired, height))

BeginningOfNode == Assign("beginning-of-node", 0)
EndOfNode == Assign("end-of-node", CurWin.pad_rows - height)
ScrollForwardPageOnly ==
    Assign("scroll-forward-page-only", CurWin.page_top + height)
ScrollBackwardPageOnly ==
    Assign("scroll-backward-page-only", CurWin.page_top - height)
DownLine == Assign("down-line", CurWin.page_top + 1)
UpLine == Assign("up-line", CurWin.page_top - 1)
ScrollHalfScreenDown ==
    Assign("scroll-half-screen-down", CurWin.page_top + FloorDiv(height, 2))
ScrollHalfScreenUp ==
    Assign("scroll-half-screen-up", CurWin.page_top - FloorDiv(height, 2))

\* case 'next-line' / 'prev-line' up to the line movement: goal_column is
\* taken from cursor_column only while it is -1
TakeGoal(w) ==
    IF w.goal_column = -1
    THEN LET r == CursorColumn(w)
         IN  IF r.ok THEN Ok([r.win EXCEPT !.goal_column = r.val])
             ELSE Raise(r.win)
    ELSE Ok(w)

\* the statements that follow one that returned (g.ok) or raised
ThenPointNextLine(g) == IF g.ok THEN PointNextLine(g.win) ELSE g
ThenPointPrevLine(g) == IF g.ok THEN PointPrevLine(g.win) ELSE g
ThenMoveToGoal(m, h) == IF m.ok THEN MoveToGoal(m.win, h) ELSE m

\* case 'next-line'
NextLineCase(w, h) == ThenMoveToGoal(ThenPointNextLine(TakeGoal(w)), h)

\* case 'prev-line'
PrevLineCase(w, h) == ThenMoveToGoal(ThenPointPrevLine(TakeGoal(w)), h)

NextLine == Dispatch("next-line", 0, NextLineCase(CurWin, height))
PrevLine == Dispatch("prev-line", 0, PrevLineCase(CurWin, height))

\* case 'beginning-of-line' / 'end-of-line': line_map[i] is read as it stands
LineEdgeCase(w, i, h) ==
    IF ~PyInRange(w.line_map.offsets, i) THEN Raise(w)
    ELSE IF PyAt(w.line_map.offsets, i) # w.point
         THEN ShowPoint([w EXCEPT !.point = PyAt(w.line_map.offsets, i)], h)
    ELSE Ok(w)

BeginningOfLine ==
    Dispatch("beginning-of-line", 0, LineEdgeCase(CurWin, 0, height))
EndOfLine ==
    Dispatch("end-of-line", 0, LineEdgeCase(CurWin, -1, height))

\* a node change is taken only while line_starts stays within MaxStarts
Fits(w, n) == Len(w.line_starts) + Len(LineLens(Doc[n].contents)) <= MaxStarts

\* cur_window.node = <the outcome of a lookup in file_buffer.nodes>
AssignNode(w, looked, h) ==
    IF looked.state = "returned" THEN NodeSetter(w, looked.val, h) ELSE Raise(w)

NodeCase(name, looked) ==
    /\ (cur # -1 /\ looked.state = "returned") => Fits(CurWin, looked.val)
    /\ Dispatch(name, 0, AssignNode(CurWin, looked, height))

FirstNode == NodeCase("first-node", DListGetInt(DocNodes, 0))
LastNode == NodeCase("last-node", DListGetInt(DocNodes, -1))
\* global-next-node following the header's Next field
GlobalNextNode_Header ==
    NodeCase("global-next-node", DListGetStr(DocNodes, Doc[CurWin.node].next))
GlobalNextNode ==
    NodeCase("global-next-node", DListAfter(DocNodes, Doc[CurWin.node].name, 1))
GlobalPrevNode ==
    NodeCase("global-prev-node", DListBefore(DocNodes, Doc[CurWin.node].name, 1))
UpNode == NodeCase("up-node", DListBefore(DocNodes, Doc[CurWin.node].up, 1))

\* a case whose guard is false: no case matches, nothing is done and the loop
\* takes the next key
GuardFalse(name) ==
    /\ Running
    /\ act' = [name |-> name, arg |-> 0, win |-> 0]
    /\ status' = "running"
    /\ refresh' = FALSE
    /\ vstart' = -1
    /\ UNCHANGED <<windows, cur, height, dl, dl_call, dl_res, fbvars, xvars>>

\* case 'next-node' if node.next / case 'prev-node' if node.prev
NextNode ==
    IF cur # -1 /\ Doc[CurWin.node].next = "" THEN GuardFalse("next-node")
    ELSE NodeCase("next-node", DListGetStr(DocNodes, Doc[CurWin.node].next))
PrevNode ==
    IF cur # -1 /\ Doc[CurWin.node].prev = "" THEN GuardFalse("prev-node")
    ELSE NodeCase("prev-node", DListGetStr(DocNodes, Doc[CurWin.node].prev))

\* the action identifiers of the binding tables (ui.py 33-187) that run's match
\* statement has a case for whose body is pass (ui.py 557-606), or has no case
\* for at all
PassActs == {"history-node", "search", "abort-key"}
UnmatchedActs == {"forward-char", "quit"}

\* a case body that used cur_window, as the cases with a handler do
NoHandlerCase_UsesWindow(name) ==
    [windows |-> windows, cur |-> cur,
     status |-> IF cur = -1 THEN "fault" ELSE "running"]

\* the session after the match statement ran for such an identifier: no case
\* body touches anything, and the loop takes the next key
NoHandlerCase(name) == [windows |-> windows, cur |-> cur, status |-> "running"]

NoHandler ==
    /\ Running
    /\ \E name \in PassActs \cup UnmatchedActs :
          /\ windows' = NoHandlerCase(name).windows
          /\ cur' = NoHandlerCase(name).cur
          /\ status' = NoHandlerCase(name).status
          /\ act' = [name |-> name, arg |-> 0, win |-> 0]
          /\ refresh' = FALSE
          /\ vstart' = -1
          /\ UNCHANGED <<height, dl, dl_call, dl_res, fbvars, xvars>>

Next ==
    \/ SetPageTop \/ GotoPercent \/ DigitKey \/ NoHandler
    \/ BeginningOfNode \/ EndOfNode
    \/ ScrollForwardPageOnly \/ ScrollBackwardPageOnly
    \/ DownLine \/ UpLine \/ ScrollHalfScreenDown \/ ScrollHalfScreenUp
    \/ NextLine \/ PrevLine \/ BeginningOfLine \/ EndOfLine
    \/ FirstNode \/ LastNode \/ NextNode \/ PrevNode
    \/ GlobalNextNode \/ GlobalPrevNode \/ UpNode

Spec == Init /\ [][Next]_vars

(* ------------------------ DList as a pure function -------------------- *)
KeyNames == <<"asdf", "mid", "arst", "k4", "k5">>
ValueSet == {15, 1}

DLists ==
    UNION { { d \in [1..n -> [key : {KeyNames[j] : j \in 1..(MaxKeys + 1)},
                              value : ValueSet]] :
                \A a, b \in 1..n : a # b => d[a].key # d[b].key }
            : n \in 0..MaxKeys }

InitDList ==
    /\ windows = <<>> /\ cur = -1 /\ height = 1 /\ status = "running"
    /\ refresh = FALSE /\ act = [name |-> "init", arg |-> 0, win |-> 0]
    /\ vstart = -1
    /\ dl \in DLists
    /\ dl_call \in [op : {"before", "after"},
                    k : {KeyNames[j] : j \in 1..(MaxKeys + 1)},
                    count : -1..MaxCount]
    /\ dl_res = [state |-> "pending", val |-> 0]
    /\ contents = <<>> /\ tags = <<>> /\ nodes = <<>> /\ load = IdleLoad
    /\ XIdle

CallBefore ==
    /\ dl_res.state = "pending" /\ dl_call.op = "before"
    /\ dl_res' = DListBefore(dl, dl_call.k, dl_call.count)
    /\ UNCHANGED <<windows, cur, height, status, refresh, act, vstart, dl,
                   dl_call, fbvars, xvars>>

CallAfter ==
    /\ dl_res.state = "pending" /\ dl_call.op = "after"
    /\ dl_res' = DListAfter(dl, dl_call.k, dl_call.count)
    /\ UNCHANGED <<windows, cur, height, status, refresh, act, vstart, dl,
                   dl_call, fbvars, xvars>>

NextDList == CallBefore \/ CallAfter

SpecDList == InitDList /\ [][NextDList]_vars
(* ----------------------- loading a file (nodes.py) -------------------- *)
\* A file is a sequence of lines.  A line is [kind, len, name, num]: len is
\* its length in characters with its newline, and kind says which pattern of
\* nodes.py the line matches:
\*   "sep"     NODE_SEP (nodes.py 31), the character \037 alone on its line
\*   "header"  NODE_RAW (nodes.py 25-29), "File: f,  Node: <name>, ..."
\*   "label"   Labels.TABLE_BEG (nodes.py 57), "Tag Table:"
\*   "entry"   TAG_TABLE_ENTRY (nodes.py 35), "Node: <name>\177<num>"
\*   "blank"   white space only, which line_r (nodes.py 39) does not match
\*   "text"    any other line
\* Every file considered is at least TailWindow characters long, so that the
\* position len(contents) - 1000 given to finditer is not negative, and has no
\* separator line right after another, so that line_r sees none as blank.
Line(kind, len, name, num) ==
    [kind |-> kind, len |-> len, name |-> name, num |-> num]

MaxNodes == 2       \* nodes in a file: 1..MaxNodes
MaxTags == 3        \* entries in a tag table: 0..MaxTags

TailWindow == 1000  \* len(self.contents)-1000
SepLen == 2         \* "\037" and its newline
LabelLen == 11      \* "Tag Table:" and its newline
EndLen == 14        \* "End Tag Table" and its newline
PreambleLen == 801  \* the text before the first node (nodestart of Top)
HeaderLen == 40
BodyLen == 250
EntryLen == 14      \* as "Node: Top\177801" and its newline
WideEntryLen == 600 \* an entry with a long node name
FarOffset == 5000   \* an offset past the end of every file considered

NodeNames == <<"Top", "Invoking sample", "Index", "Concept Index">>
NodeSpan == SepLen + HeaderLen + BodyLen
\* where node k's separator line starts
NodeSepStart(k) == PreambleLen + (k - 1) * NodeSpan

RECURSIVE Concat(_)
Concat(ss) == IF ss = <<>> THEN <<>> ELSE Head(ss) \o Concat(Tail(ss))

\* the lines of node k: separator, header line (or a line that is no header),
\* body
NodeLines(k, badhdr) ==
    << Line("sep", SepLen, "", 0),
       IF k = badhdr THEN Line("text", HeaderLen, "", 0)
       ELSE Line("header", HeaderLen, NodeNames[k], 0),
       Line("text", BodyLen, "", 0) >>

\* the entries of a table that lists nodes order[1], order[2], ... with the
\* offset of each node's separator plus conv; entry number stale, if any,
\* carries an offset past the end of the file
EntryLines(order, conv, stale, wide) ==
    [j \in 1..Len(order) |->
        Line("entry", IF wide THEN WideEntryLen ELSE EntryLen,
             NodeNames[order[j]],
             IF j = stale THEN FarOffset ELSE NodeSepStart(order[j]) + conv)]

\* what follows the last node
TailKinds == {"table", "other", "bare", "none"}
TailLines(tail, gap, entries) ==
    CASE tail = "table" ->
            << Line("sep", SepLen, "", 0) >>
            \o (IF gap THEN << Line("blank", 1, "", 0) >> ELSE <<>>)
            \o << Line("label", LabelLen, "", 0) >> \o entries
            \o << Line("sep", SepLen, "", 0), Line("text", EndLen, "", 0) >>
      [] tail = "other" ->
            << Line("sep", SepLen, "", 0) >>
            \o (IF gap THEN << Line("blank", 1, "", 0) >> ELSE <<>>)
            \o << Line("text", LabelLen, "", 0) >> \o entries
            \o << Line("sep", SepLen, "", 0), Line("text", EndLen, "", 0) >>
      [] tail = "bare" ->
            << Line("sep", SepLen, "", 0) >>
            \o (IF gap THEN << Line("blank", 1, "", 0) >> ELSE <<>>)
      [] tail = "none" -> <<>>

MakeFile(n, badhdr, order, conv, stale, wide, tail, gap) ==
    << Line("text", PreambleLen, "", 0) >>
    \o Concat([k \in 1..n |-> NodeLines(k, badhdr)])
    \o TailLines(tail, gap, EntryLines(order, conv, stale, wide))

Orders(n) == UNION { [1..m -> 1..n] : m \in 0..MaxTags }

\* offsets: where line i of f starts, and len(contents)
RECURSIVE LineStart(_, _)
LineStart(f, i) == IF i <= 1 THEN 0 ELSE LineStart(f, i - 1) + f[i - 1].len
FileLen(f) == LineStart(f, Len(f) + 1)

\* SEP_R.finditer(contents, pos) / SEP_R.search(contents, pos): the separator
\* lines that start at or after pos, by line number
SepsFrom(f, pos) == {i \in 1..Len(f) : f[i].kind = "sep" /\ LineStart(f, i) >= pos}
\* match.end() of the separator on line i: the position of its newline
SepEnd(f, i) == LineStart(f, i) + f[i].len - 1

\* line_r.finditer(contents, pos) for pos inside line i: the non-blank lines
\* after line i, by line number
NonBlankAfter(f, i) == {j \in (i + 1)..Len(f) : f[j].kind # "blank"}

\* the loop "for entry in table_iter" of _scan_tags_table from line j on:
\* [tags, returned], returned when a line that is no entry was met
RECURSIVE ScanEntries(_, _, _)
ScanEntries(f, j, ts) ==
    IF {k \in j..Len(f) : f[k].kind # "blank"} = {} THEN
        [tags |-> ts, returned |-> FALSE]
    ELSE LET e == Min({k \in j..Len(f) : f[k].kind # "blank"})
         IN  IF f[e].kind # "entry" THEN [tags |-> ts, returned |-> TRUE]
             ELSE ScanEntries(f, e + 1,
                              Append(ts, [name |-> f[e].name,
                                          nodestart |-> f[e].num]))

\* the loop "for sep in SEP_R.finditer(...)" over the separator lines seps
\* still to visit: [ok, tags], not ok when next(table_iter) raised
\* StopIteration
RECURSIVE ScanSeps(_, _, _)
ScanSeps(f, seps, ts) ==
    IF seps = {} THEN [ok |-> TRUE, tags |-> ts]
    ELSE LET s == Min(seps)
         IN  IF NonBlankAfter(f, s) = {} THEN [ok |-> FALSE, tags |-> ts]
             ELSE IF f[Min(NonBlankAfter(f, s))].kind = "label"
                  THEN IF ScanEntries(f, Min(NonBlankAfter(f, s)) + 1,
                                      ts).returned
                       THEN [ok |-> TRUE,
                             tags |-> ScanEntries(f, Min(NonBlankAfter(f, s)) + 1,
                                                  ts).tags]
                       ELSE ScanSeps(f, seps \ {s},
                                     ScanEntries(f, Min(NonBlankAfter(f, s)) + 1,
                                                 ts).tags)
             ELSE ScanSeps(f, seps \ {s}, ts)

\* a scan that gives up at the first separator of the tail
ScanTagsTable_FirstSepOnly(f) ==
    IF SepsFrom(f, FileLen(f) - TailWindow) = {} THEN [ok |-> TRUE, tags |-> <<>>]
    ELSE ScanSeps(f, {Min(SepsFrom(f, FileLen(f) - TailWindow))}, <<>>)

\* FileBuffer._scan_tags_table
ScanTagsTable(f) == ScanSeps(f, SepsFrom(f, FileLen(f) - TailWindow), <<>>)

\* Node.__init__ and Node._scan for tag t: the node, or the error raised
NodeOf(f, t) ==
    IF SepsFrom(f, t.nodestart + 1) = {} THEN
        [ok |-> FALSE, error |-> "RuntimeError"]
    ELSE LET nodeend == SepEnd(f, Min(SepsFrom(f, t.nodestart + 1)))
             hdrs == {i \in 1..Len(f) :
                         /\ f[i].kind = "header"
                         /\ LineStart(f, i) >= t.nodestart
                         /\ LineStart(f, i) + f[i].len - 1 <= nodeend}
         IN  IF hdrs = {} THEN [ok |-> FALSE, error |-> "AttributeError"]
             ELSE [ok |-> TRUE,
                   node |-> [name |-> t.name, start |-> t.nodestart,
                             end |-> nodeend, header |-> f[Min(hdrs)].name]]

\* a __setitem__ that put a new key in front of the others
DListSetStr_Prepend(d, k, v) ==
    IF \E i \in 1..Len(d) : d[i].key = k
    THEN [i \in 1..Len(d) |-> IF d[i].key = k THEN [key |-> k, value |-> v]
                              ELSE d[i]]
    ELSE <<[key |-> k, value |-> v]>> \o d

\* DList.__setitem__ with a str: self.data[k] = v
DListSetStr(d, k, v) ==
    IF \E i \in 1..Len(d) : d[i].key = k
    THEN [i \in 1..Len(d) |-> IF d[i].key = k THEN [key |-> k, value |-> v]
                              ELSE d[i]]
    ELSE Append(d, [key |-> k, value |-> v])

\* FileBuffer.__init__ after _read_info_file, on any file of the family
InitLoad ==
    /\ windows = <<>> /\ cur = -1 /\ height = 1 /\ status = "running"
    /\ refresh = FALSE /\ act = [name |-> "init", arg |-> 0, win |-> 0]
    /\ vstart = -1
    /\ dl = IdleDL /\ dl_call = IdleCall /\ dl_res = IdleRes
    /\ \E n \in 1..MaxNodes :
         \E badhdr \in 0..n, order \in Orders(n), conv \in {0, SepLen},
            wide \in BOOLEAN, tail \in TailKinds, gap \in BOOLEAN :
           \E stale \in 0..Len(order) :
              contents = MakeFile(n, badhdr, order, conv, stale, wide, tail, gap)
    /\ tags = <<>> /\ nodes = <<>>
    /\ load = [phase |-> "read", next |-> 0, error |-> ""]
    /\ XIdle

\* self._scan_tags_table()
ScanTags ==
    /\ load.phase = "read"
    /\ tags' = ScanTagsTable(contents).tags
    /\ load' = IF ScanTagsTable(contents).ok
               THEN [phase |-> "scanned", next |-> 1, error |-> ""]
               ELSE [phase |-> "failed", next |-> 0, error |-> "StopIteration"]
    /\ UNCHANGED <<contents, nodes, uivars, dlvars, xvars>>

\* one turn of the loop of _build_nodes: self.nodes[t.nodename] = Node(self, t);
\* an exception of Node leaves _build_nodes and FileBuffer.__init__
BuildNode ==
    /\ load.phase = "scanned" /\ load.next <= Len(tags)
    /\ IF NodeOf(contents, tags[load.next]).ok
       THEN /\ nodes' = DListSetStr(nodes, tags[load.next].name,
                                    NodeOf(contents, tags[load.next]).node)
            /\ load' = [load EXCEPT !.next = load.next + 1]
       ELSE /\ nodes' = nodes
            /\ load' = [phase |-> "failed", next |-> load.next,
                        error |-> NodeOf(contents, tags[load.next]).error]
    /\ UNCHANGED <<contents, tags, uivars, dlvars, xvars>>

\* the loop of _build_nodes is over: FileBuffer.__init__ returns
Loaded ==
    /\ load.phase = "scanned" /\ load.next > Len(tags)
    /\ load' = [load EXCEPT !.phase = "loaded"]
    /\ UNCHANGED <<contents, tags, nodes, uivars, dlvars, xvars>>

NextLoad == ScanTags \/ BuildNode \/ Loaded

SpecLoad == InitLoad /\ [][NextLoad]_vars
(* -------------------------- Reference (nodes.py) ---------------------- *)
\* hash() of the strings used as file and node names: HashBits-bit values,
\* two of the names colliding
HashBits == 3
StrHash(s) ==
    CASE s = "" -> 0
      [] s = "sample" -> 5
      [] s = "emacs" -> 6
      [] s = "Top" -> 3
      [] s = "Index" -> 5
      [] OTHER -> 1

\* a ^ b on w-bit values
RECURSIVE Xor(_, _, _)
Xor(a, b, w) ==
    IF w = 0 THEN 0
    ELSE (((a % 2) + (b % 2)) % 2) + 2 * Xor(a \div 2, b \div 2, w - 1)

\* the references considered: targets in this file ("") or in another, found
\* at different places and, for index entries, with different labels and
\* line numbers
MaxSpan == 2        \* references start at offsets 1..MaxSpan
RefFiles == {"", "emacs"}
RefNodes == {"Top", "Index"}
RefLabels == {"", "sample"}
References ==
    { [filename |-> f, nodename |-> n, label |-> l, start |-> s,
       end |-> MaxSpan + 1, line_number |-> IF l = "" THEN 0 ELSE 6] :
      f \in RefFiles, n \in RefNodes, l \in RefLabels, s \in 1..MaxSpan }

\* an __eq__ that compared the position too
ReferenceEq_Span(a, b) ==
    a.filename = b.filename /\ a.nodename = b.nodename /\ a.start = b.start

\* Reference.__eq__
ReferenceEq(a, b) == a.filename = b.filename /\ a.nodename = b.nodename

\* Reference.__hash__
ReferenceHash(r) == Xor(StrHash(r.filename), StrHash(r.nodename), HashBits)

\* set.add: r is put in unless an element with its hash compares equal to it
SetAdd(S, r) ==
    IF \E e \in S : ReferenceHash(e) = ReferenceHash(r) /\ ReferenceEq(e, r)
    THEN S ELSE S \cup {r}

InitRefs ==
    /\ windows = <<>> /\ cur = -1 /\ height = 1 /\ status = "running"
    /\ refresh = FALSE /\ act = [name |-> "init", arg |-> 0, win |-> 0]
    /\ vstart = -1
    /\ dl = IdleDL /\ dl_call = IdleCall /\ dl_res = IdleRes
    /\ contents = <<>> /\ tags = <<>> /\ nodes = <<>> /\ load = IdleLoad
    /\ call = NoCall /\ opening = NotOpening
    /\ ret = [state |-> "set", set |-> {}]

\* a reference is added to a set of references
AddRef ==
    /\ ret.state = "set"
    /\ \E r \in References :
          /\ call' = [op |-> "add", ref |-> r]
          /\ ret' = [ret EXCEPT !.set = SetAdd(ret.set, r)]
    /\ UNCHANGED <<opening, uivars, dlvars, fbvars>>

NextRefs == AddRef

SpecRefs == InitRefs /\ [][NextRefs]_vars
(* ------------------------ node header (nodes.py) ---------------------- *)
\* The header line after "File: f,  Node: n" is a sequence of ",  Key: value"
\* fields; values hold no comma and no newline.  NODE_RAW takes the optional
\* groups in the order Next, Prev(ious), Up and must reach the end of the line,
\* so it matches exactly the headers whose fields are some of these, in that
\* order.  The node's body holds no other line beginning with "File:".
MaxFields == 3
HeaderKeys == {"Next", "Prev", "Previous", "Up", "Date"}
HeaderValues == {"Top", "(dir)", "Invoking sample"}
HeaderSeqs(n) == [1..n -> [key : HeaderKeys, value : HeaderValues]]
Headers == UNION { HeaderSeqs(n) : n \in 0..MaxFields }

\* the named group that takes a field, 0 for none
HeaderGroup(k) ==
    CASE k = "Next" -> 1
      [] k \in {"Prev", "Previous"} -> 2
      [] k = "Up" -> 3
      [] OTHER -> 0

\* NODE_HEADER_R.search finds the header
HeaderMatches(h) ==
    /\ \A i \in 1..Len(h) : HeaderGroup(h[i].key) # 0
    /\ \A i \in 1..(Len(h) - 1) :
          HeaderGroup(h[i].key) < HeaderGroup(h[i + 1].key)

\* m.groupdict(''): the text of group g, '' for a group that took no part
GroupDict(h, g) ==
    IF \E i \in 1..Len(h) : HeaderGroup(h[i].key) = g
    THEN h[CHOOSE i \in 1..Len(h) : HeaderGroup(h[i].key) = g].value
    ELSE ""

\* a header scan that keeps the Up field as it is written
ScanHeader_KeepDir(h) ==
    IF ~HeaderMatches(h)
    THEN [state |-> "raised", error |-> "AttributeError"]
    ELSE [state |-> "returned", prev |-> GroupDict(h, 2),
          next |-> GroupDict(h, 1), up |-> GroupDict(h, 3)]

\* Node._scan, the header part: search() gives None for a header the
\* pattern does not match, and None has no groupdict
ScanHeader(h) ==
    IF ~HeaderMatches(h)
    THEN [state |-> "raised", error |-> "AttributeError"]
    ELSE [state |-> "returned", prev |-> GroupDict(h, 2),
          next |-> GroupDict(h, 1),
          up |-> IF GroupDict(h, 3) = "(dir)" THEN "" ELSE GroupDict(h, 3)]

InitHeader ==
    /\ windows = <<>> /\ cur = -1 /\ height = 1 /\ status = "running"
    /\ refresh = FALSE /\ act = [name |-> "init", arg |-> 0, win |-> 0]
    /\ vstart = -1
    /\ dl = IdleDL /\ dl_call = IdleCall /\ dl_res = IdleRes
    /\ contents = <<>> /\ tags = <<>> /\ nodes = <<>> /\ load = IdleLoad
    /\ opening = NotOpening /\ ret = NoRet
    /\ \E h \in Headers : call = [op |-> "scan", header |-> h]

\* a node with the header is constructed
CallScanHeader ==
    /\ call.op = "scan" /\ ret = NoRet
    /\ ret' = ScanHeader(call.header)
    /\ UNCHANGED <<call, opening, uivars, dlvars, fbvars>>

NextHeader == CallScanHeader

SpecHeader == InitHeader /\ [][NextHeader]_vars

(* --------------------------- key lookup (ui.py) ----------------------- *)
\* curses key codes (ints) and curses.keyname of them
KEY_DOWN == 258
KEY_UP == 259
RawKeys == {KEY_UP, KEY_DOWN, 106, 107, 120}
KeyName(raw) ==
    CASE raw = KEY_UP -> "KEY_UP"
      [] raw = KEY_DOWN -> "KEY_DOWN"
      [] raw = 106 -> "j"
      [] raw = 107 -> "k"
      [] OTHER -> "x"

\* hard_coded_keys, keyed by key code (two of its entries)
hard_coded_keys == [c \in {KEY_UP, KEY_DOWN} |->
                       IF c = KEY_UP THEN "prev-line" ELSE "next-line"]
\* hard_coded_keys as a lookup by a str sees it: no int key equals a str
HardCodedByName == [n \in {} |-> ""]
\* default_keys (two of its entries)
default_keys == [n \in {"j", "k"} |->
                    IF n = "j" THEN "next-line" ELSE "prev-line"]
\* the [keys] section of the user's pin.ini: bindings of some key names
ConfigNames == {"j", "x", "KEY_UP"}
ConfigActions == {"down-line", "quit"}
Configs == UNION { [d -> ConfigActions] : d \in SUBSET ConfigNames }

\* ChainMap.__getitem__: the first mapping that has the key answers
ChainMapGet(maps, k) ==
    IF \A i \in 1..Len(maps) : k \notin DOMAIN maps[i]
    THEN Raised("KeyError")
    ELSE Returned(maps[Min({i \in 1..Len(maps) : k \in DOMAIN maps[i]})][k])

\* InfoSession.__init__: self.input_map
InputMap(config) == <<default_keys, HardCodedByName, config>>

\* InfoSession.run: what a key press (not a digit) resolves to; a hard-coded
\* key is passed over and resolves to nothing
RunLookup(raw, config) ==
    IF raw \in DOMAIN hard_coded_keys
    THEN [state |-> "pass", val |-> ""]
    ELSE ChainMapGet(InputMap(config), KeyName(raw))

InitKeys ==
    /\ windows = <<>> /\ cur = -1 /\ height = 1 /\ status = "running"
    /\ refresh = FALSE /\ act = [name |-> "init", arg |-> 0, win |-> 0]
    /\ vstart = -1
    /\ dl = IdleDL /\ dl_call = IdleCall /\ dl_res = IdleRes
    /\ contents = <<>> /\ tags = <<>> /\ nodes = <<>> /\ load = IdleLoad
    /\ call = NoCall /\ ret = NoRet
    /\ \E c \in Configs : opening = [phase |-> "keys", config |-> c]

\* a key is pressed and looked up
GetKey ==
    /\ opening.phase = "keys"
    /\ \E raw \in RawKeys :
          /\ call' = [op |-> "key", raw |-> raw]
          /\ ret' = RunLookup(raw, opening.config)
    /\ UNCHANGED <<opening, uivars, dlvars, fbvars>>

NextKeys == GetKey

SpecKeys == InitKeys /\ [][NextKeys]_vars

(* ----------------------- opening a session (ui.py) -------------------- *)
\* The initial references are a set of Reference, so they have distinct
\* (filename, nodename); the loop takes them in some order.  Each FileBuffer
\* constructed is a new object, numbered in the order of construction.
OpenFiles == {"sample", "emacs"}
OpenNodes == {"Top", "Index"}
OpenTargets == [filename : OpenFiles, nodename : OpenNodes]
RefOrders(S) ==
    { q \in [1..Cardinality(S) -> S] :
         \A i, j \in 1..Cardinality(S) : q[i] = q[j] => i = j }

InitOpen ==
    /\ windows = <<>> /\ cur = -1 /\ height = 1 /\ status = "running"
    /\ refresh = FALSE /\ act = [name |-> "init", arg |-> 0, win |-> 0]
    /\ vstart = -1
    /\ dl = IdleDL /\ dl_call = IdleCall /\ dl_res = IdleRes
    /\ contents = <<>> /\ tags = <<>> /\ nodes = <<>> /\ load = IdleLoad
    /\ call = NoCall /\ ret = NoRet
    /\ \E S \in SUBSET OpenTargets : \E q \in RefOrders(S) :
          opening = [phase |-> "open", refs |-> q, made |-> 0,
                     loaded_buffers |-> [f \in {} |-> 0], windows |-> <<>>]

\* InfoSession.__init__, one turn of "for r in refs": a FileBuffer is
\* constructed for r.filename, stored in loaded_buffers under that name, and
\* a window is opened on its node r.nodename
OpenRef ==
    /\ opening.phase = "open" /\ opening.refs # <<>>
    /\ LET r == Head(opening.refs)
           new_buf == opening.made + 1
       IN  opening' =
              [opening EXCEPT
                 !.refs = Tail(@),
                 !.made = new_buf,
                 !.loaded_buffers =
                    [f \in DOMAIN @ \cup {r.filename} |->
                        IF f = r.filename THEN new_buf ELSE @[f]],
                 !.windows = Append(@, [filename |-> r.filename,
                                        nodename |-> r.nodename,
                                        buffer |-> new_buf])]
    /\ UNCHANGED <<call, ret, uivars, dlvars, fbvars>>

NextOpen == OpenRef

SpecOpen == InitOpen /\ [][NextOpen]_vars

(* ------------------------ DList indexing (utils.py) ------------------- *)
\* an int assignment that deletes the key and inserts it again
DListSetInt_Move(d, k, v) ==
    IF ~PyInRange(DKeys(d), k) THEN [state |-> "raised", d |-> d]
    ELSE [state |-> "returned",
          d |-> Append(SelectSeq(d, LAMBDA e : e.key # PyAt(DKeys(d), k)),
                       [key |-> PyAt(DKeys(d), k), value |-> v])]

\* DList.__setitem__ with an int: real_key = list(self.keys())[k], then the
\* dict assignment self.data[real_key] = v
DListSetInt(d, k, v) ==
    IF ~PyInRange(DKeys(d), k) THEN [state |-> "raised", d |-> d]
    ELSE [state |-> "returned", d |-> DListSetStr(d, PyAt(DKeys(d), k), v)]

IndexRange == (0 - MaxKeys - 1)..MaxKeys

InitIndex ==
    /\ windows = <<>> /\ cur = -1 /\ height = 1 /\ status = "running"
    /\ refresh = FALSE /\ act = [name |-> "init", arg |-> 0, win |-> 0]
    /\ vstart = -1
    /\ dl \in DLists
    /\ dl_call = IdleCall /\ dl_res = IdleRes
    /\ contents = <<>> /\ tags = <<>> /\ nodes = <<>> /\ load = IdleLoad
    /\ XIdle

\* d[i]
GetInt ==
    /\ \E i \in IndexRange :
          /\ call' = [op |-> "getint", k |-> i, d |-> dl]
          /\ ret' = DListGetInt(dl, i)
    /\ UNCHANGED <<opening, uivars, dlvars, fbvars>>

\* d[name]
GetStr ==
    /\ \E j \in 1..(MaxKeys + 1) :
          /\ call' = [op |-> "getstr", name |-> KeyNames[j], d |-> dl]
          /\ ret' = DListGetStr(dl, KeyNames[j])
    /\ UNCHANGED <<opening, uivars, dlvars, fbvars>>

\* d[i] = v
SetInt ==
    /\ \E i \in IndexRange, v \in ValueSet :
          /\ call' = [op |-> "setint", k |-> i, v |-> v, d |-> dl]
          /\ ret' = [state |-> DListSetInt(dl, i, v).state]
          /\ dl' = DListSetInt(dl, i, v).d
    /\ UNCHANGED <<opening, uivars, dl_call, dl_res, fbvars>>

NextIndex == GetInt \/ GetStr \/ SetInt

SpecIndex == InitIndex /\ [][NextIndex]_vars

(* --------------------- references of a node (nodes.py) ---------------- *)
\* The body of a node, after its header line, as a sequence of lines, each
\* ending with a newline.  A line is one of
\*   "index"   the index tag \0\b[index\0\b] (ReferenceHooks.INDEX, head)
\*   "menu"    "* Menu:" (ReferenceHooks.MENU)
\*   "note"    text holding "* Note:" (ReferenceHooks.X_REF)
\*   "entry"   a menu entry "* Name::" (Menu's pattern)
\*   "ientry"  an index entry "* label: Name. (line n)" (Index's pattern)
\*   "blank"   an empty line
\*   "text"    any other text
MaxLines == 5
LineKinds == {"index", "menu", "note", "entry", "ientry", "blank", "text"}
Bodies == UNION { [1..n -> LineKinds] : n \in 0..MaxLines }

\* the "* Menu:" line that ReferenceHooks.INDEX takes with the tag at line i:
\* the next line that is not empty (\s*), if it is "* Menu:"; 0 for none
IndexMenu(b, i) ==
    IF b[i] = "index"
       /\ \E j \in (i + 1)..Len(b) :
             b[j] = "menu" /\ \A k \in (i + 1)..(j - 1) : b[k] = "blank"
    THEN Min({j \in (i + 1)..Len(b) : b[j] = "menu"})
    ELSE 0

\* where '^$' matches in contents[s:] for a marker at line i: the empty lines
\* after it (the contents end with the separator that follows the node,
\* nodes.py 372-378, so their end is not an empty line)
Empties(b, i) == {j \in (i + 1)..Len(b) : b[j] = "blank"}

\* next(islice(re.finditer('^$', ...), 1, 2)): the second of them, 0 when
\* there is none (StopIteration)
BlockEnd(b, i) ==
    IF Cardinality(Empties(b, i)) < 2 THEN 0
    ELSE Min(Empties(b, i) \ {Min(Empties(b, i))})

\* Index(...).refs, Menu(...).refs, XReference(...).refs for the marker at
\* line i: a reference for every line of lines i..e-1 that the source's
\* pattern matches.  XReference is given the marker's own text "* Note:",
\* in which its pattern ("*Note ...") finds nothing.
SourceRefs(b, source, i, e) ==
    IF source = "XReference" THEN <<>>
    ELSE [k \in 1..Cardinality({j \in i..(e - 1) :
                  b[j] = IF source = "Index" THEN "ientry" ELSE "entry"}) |->
            [source |-> source, marker |-> i,
             line |-> CHOOSE j \in i..(e - 1) :
                 /\ b[j] = IF source = "Index" THEN "ientry" ELSE "entry"
                 /\ Cardinality({m \in i..j :
                       b[m] = IF source = "Index" THEN "ientry" ELSE "entry"})
                    = k]]

ScanRaised(disp, refs) ==
    [state |-> "raised", dispatched |-> disp, references |-> refs]
ScanReturned(disp, refs) ==
    [state |-> "returned", dispatched |-> disp, references |-> refs]

\* the scan with an INDEX hook that is the tag alone
RECURSIVE ScanRefs_TagOnly(_, _, _, _)
ScanRefs_TagOnly(b, i, disp, refs) ==
    IF i > Len(b) THEN ScanReturned(disp, refs)
    ELSE IF b[i] = "index" THEN
        IF BlockEnd(b, i) = 0 THEN ScanRaised(disp, refs)
        ELSE ScanRefs_TagOnly(b, i + 1,
                Append(disp, [line |-> i, source |-> "Index"]),
                refs \o SourceRefs(b, "Index", i, BlockEnd(b, i)))
    ELSE IF b[i] = "menu" THEN
        IF BlockEnd(b, i) = 0 THEN ScanRaised(disp, refs)
        ELSE ScanRefs_TagOnly(b, i + 1,
                Append(disp, [line |-> i, source |-> "Menu"]),
                refs \o SourceRefs(b, "Menu", i, BlockEnd(b, i)))
    ELSE IF b[i] = "note" THEN
        ScanRefs_TagOnly(b, i + 1,
                Append(disp, [line |-> i, source |-> "XReference"]), refs)
    ELSE ScanRefs_TagOnly(b, i + 1, disp, refs)

\* Node._scan, "for m in self.hook.finditer(self.contents)": the search goes
\* on from line i; disp lists the sources constructed, refs is
\* self.references
RECURSIVE ScanRefs(_, _, _, _)
ScanRefs(b, i, disp, refs) ==
    IF i > Len(b) THEN ScanReturned(disp, refs)
    ELSE IF IndexMenu(b, i) # 0 THEN
        IF BlockEnd(b, i) = 0 THEN ScanRaised(disp, refs)
        ELSE ScanRefs(b, IndexMenu(b, i) + 1,
                Append(disp, [line |-> i, source |-> "Index"]),
                refs \o SourceRefs(b, "Index", i, BlockEnd(b, i)))
    ELSE IF b[i] = "menu" THEN
        IF BlockEnd(b, i) = 0 THEN ScanRaised(disp, refs)
        ELSE ScanRefs(b, i + 1,
                Append(disp, [line |-> i, source |-> "Menu"]),
                refs \o SourceRefs(b, "Menu", i, BlockEnd(b, i)))
    ELSE IF b[i] = "note" THEN
        ScanRefs(b, i + 1,
                Append(disp, [line |-> i, source |-> "XReference"]), refs)
    ELSE ScanRefs(b, i + 1, disp, refs)

InitScan ==
    /\ windows = <<>> /\ cur = -1 /\ height = 1 /\ status = "running"
    /\ refresh = FALSE /\ act = [name |-> "init", arg |-> 0, win |-> 0]
    /\ vstart = -1
    /\ dl = IdleDL /\ dl_call = IdleCall /\ dl_res = IdleRes
    /\ contents = <<>> /\ tags = <<>> /\ nodes = <<>> /\ load = IdleLoad
    /\ opening = NotOpening /\ ret = NoRet
    /\ \E b \in Bodies : call = [op |-> "refs", body |-> b]

\* a node with the body is constructed and its references are scanned
CallScanRefs ==
    /\ call.op = "refs" /\ ret = NoRet
    /\ ret' = ScanRefs(call.body, 1, <<>>, <<>>)
    /\ UNCHANGED <<call, opening, uivars, dlvars, fbvars>>

NextScan == CallScanRefs

SpecScan == InitScan /\ [][NextScan]_vars

(* ------------------ the reference of an entry (nodes.py) -------------- *)
\* An entry of a menu or of an index as written in a node of the document
\* doc: "* name::" or "* label: name. (line 6)", the name possibly preceded
\* by "(file)".  A name is a sequence of characters, "a" for a word
\* character, beginning with one.
MaxName == 3
EntryNames ==
    UNION { {n \in [1..k -> {"a", " "}] : n[1] = "a"} : k \in 1..MaxName }
EntryFiles == {"", "emacs"}
DocNames == {"sample", "emacs", "dir"}

\* re.sub(r'[\t\s]+', ' ', name)
RECURSIVE Collapse(_)
Collapse(n) ==
    IF Len(n) < 2 THEN n
    ELSE IF n[1] = " " /\ n[2] = " " THEN Collapse(Tail(n))
    ELSE <<n[1]>> \o Collapse(Tail(n))

\* the groupdict of the source's pattern on the entry, as a function of the
\* group names; no match when the name is preceded by "(file)", which
\* neither \w[\w ]* (Menu) nor [\w ]+ after ":\s+" (Index) admits
EntryMatches(source, e) == e.file = ""
EntryGroups(source, e) ==
    IF source = "Menu" THEN [g \in {"name"} |-> e.name]
    ELSE [g \in {"label", "name", "line"} |->
             IF g = "name" THEN e.name ELSE IF g = "label" THEN <<"a">>
             ELSE <<"6">>]

\* dict.get
DictGet(gd, k, default) == IF k \in DOMAIN gd THEN gd[k] ELSE default

\* ReferenceSource.add_ref (Menu) and Index.add_ref, for a match object; the
\* source is not told the document it scans
SourceAddRef(source, gd, doc) ==
    [filename |-> DictGet(gd, "file", ""),
     nodename |-> IF source = "Menu" THEN Collapse(gd["name"]) ELSE gd["name"]]

InitEntry ==
    /\ windows = <<>> /\ cur = -1 /\ height = 1 /\ status = "running"
    /\ refresh = FALSE /\ act = [name |-> "init", arg |-> 0, win |-> 0]
    /\ vstart = -1
    /\ dl = IdleDL /\ dl_call = IdleCall /\ dl_res = IdleRes
    /\ contents = <<>> /\ tags = <<>> /\ nodes = <<>> /\ load = IdleLoad
    /\ opening = NotOpening /\ ret = NoRet
    /\ \E s \in {"Menu", "Index"}, f \in EntryFiles, n \in EntryNames,
          d \in DocNames :
          call = [op |-> "entry", source |-> s, doc |-> d,
                  entry |-> [file |-> f, name |-> n]]

\* the source scans the entry: for m in self._matches: self.add_ref(m)
ScanEntry ==
    /\ call.op = "entry" /\ ret = NoRet
    /\ ret' = IF EntryMatches(call.source, call.entry)
              THEN [state |-> "returned",
                    refs |-> <<SourceAddRef(call.source,
                                  EntryGroups(call.source, call.entry),
                                  call.doc)>>]
              ELSE [state |-> "returned", refs |-> <<>>]
    /\ UNCHANGED <<call, opening, uivars, dlvars, fbvars>>

NextEntry == ScanEntry

SpecEntry == InitEntry /\ [][NextEntry]_vars

(* -------------------------------- claims ------------------------------ *)
\* the actions that assign page_top, with the assigned value in act.arg
SetterActs ==
    {"page_top", "beginning-of-node", "end-of-node",
     "scroll-forward-page-only", "scroll-backward-page-only",
     "down-line", "up-line", "scroll-half-screen-down", "scroll-half-screen-up"}
NodeActs ==
    {"first-node", "last-node", "next-node", "prev-node", "global-next-node",
     "global-prev-node", "up-node"}
LineCountOf(n) == CountNL(Doc[n].contents) + 1
\* a desired page_top clamped into [0, line_count - 1]
Clamped(d, lc) == IF d < 0 THEN 0 ELSE IF d > lc - 1 THEN lc - 1 ELSE d
\* the step just taken was operation `names` on a window, and it returned
Did(names) == act'.name \in names /\ act'.win # 0 /\ status' = "running"

\* C1: in every reachable state page_top of every window is within
\* [0, line_count - 1], for the line count the window holds and for that of
\* the node it shows.
Inv_C1 ==
    \A i \in 1..Len(windows) :
        /\ 0 <= windows[i].page_top
        /\ windows[i].page_top <= windows[i].line_count - 1
        /\ windows[i].page_top <= LineCountOf(windows[i].node) - 1
\* goto_percentage(100), which asks for line_count itself, has returned on a
\* window of more than one line
Witness_C1 ==
    /\ status = "running" /\ act.name = "goto_percentage" /\ act.arg = 100
    /\ windows[act.win].line_count > 1

\* C2 (as claimed): after a navigation action has completed, the line holding
\* point is visible: page_top <= line of point < page_top + height.
Claim_C2 ==
    (status = "running" /\ act.win # 0) =>
        LET w == windows[act.win]
        IN  /\ w.page_top <= TrueLine(w.node, w.point)
            /\ TrueLine(w.node, w.point) < w.page_top + height

\* C3: assigning page_top its current value changes nothing: no field of any
\* window (page_top, point, goal column, line map, history), no fault, and
\* scr.refresh() is not reached.
Thm_C3 ==
    [][(act'.name \in SetterActs /\ act'.win # 0
        /\ act'.arg = windows[act'.win].page_top)
       => (windows' = windows /\ status' = status /\ ~refresh'
           /\ cur' = cur /\ height' = height)]_vars
\* page_top was assigned its current value on a window whose point, goal
\* column and line map had all left their initial values
Witness_C3 ==
    /\ act.name \in SetterActs /\ act.win # 0
    /\ act.arg = windows[act.win].page_top
    /\ status = "running"
    /\ windows[act.win].point # 0
    /\ windows[act.win].goal_column # -1
    /\ windows[act.win].line_map.offsets # <<>>

\* C4 (as claimed): an assignment of d to page_top leaves page_top equal to d
\* clamped into [0, line_count - 1].
Claim_C4 ==
    [][Did(SetterActs) =>
        windows'[act'.win].page_top =
            Clamped(act'.arg, windows[act'.win].line_count)]_vars

\* C5 (as claimed): an assignment that moves page_top to a new value t puts
\* point on the start of line t when point's line is above t, on the start of
\* line t + height - 1 when point's line is at or beyond t + height, and
\* leaves point alone when its line is visible.
Claim_C5 ==
    [][LET w == windows[act'.win]
           t == Clamped(act'.arg, w.line_count)
           l == TrueLine(w.node, w.point)
           p == windows'[act'.win].point
       IN  (Did(SetterActs) /\ t # w.page_top
            /\ t + height - 1 < Len(TrueStarts(w.node))) =>
              /\ l < t => p = TrueStarts(w.node)[t + 1]
              /\ l >= t + height => p = TrueStarts(w.node)[t + height]
              /\ (t <= l /\ l < t + height) => p = w.point]_vars

\* C6 (as claimed): in a sequence of next-line/prev-line that began at column
\* c, point is at column c whenever it is on a line of more than c columns.
Claim_C6 ==
    (status = "running" /\ act.name \in Vertical /\ act.win # 0) =>
        LET w == windows[act.win]
            l == TrueLine(w.node, w.point)
        IN  LineWidth(w.node, l) > vstart => TrueCol(w.node, w.point) = vstart

\* C7 (as claimed): every move other than next-line/prev-line leaves
\* goal_column unset (-1).
Claim_C7 ==
    [][Did((SetterActs \cup NodeActs
            \cup {"beginning-of-line", "end-of-line"}) \ {"page_top"})
       => windows'[act'.win].goal_column = -1]_vars

\* C8 (as claimed): goto_percentage(p) leaves page_top 0 for p = 0,
\* line_count - 1 for p = 100, the interpolated line between, and point on
\* the start of line page_top.
Interpolated(p, lc) ==
    IF p = 0 THEN 0 ELSE IF p = 100 THEN lc - 1 ELSE (p * lc) \div 100
Claim_C8 ==
    [][(Did({"goto_percentage"}) /\ act'.arg \in 0..100) =>
        LET w == windows'[act'.win]
        IN  /\ w.page_top = Interpolated(act'.arg, w.line_count)
            /\ w.point = TrueStarts(w.node)[w.page_top + 1]]_vars

\* C9 (as claimed): for 0 <= point < len(contents), line_of_point is the
\* greatest line index i with line_starts[i] <= point.
Claim_C9 ==
    \A i \in 1..Len(windows) :
        LET w == windows[i]
        IN  (/\ w.line_starts = TrueStarts(w.node)
             /\ 0 <= w.point /\ w.point < Len(Doc[w.node].contents)) =>
                /\ LineOfPoint(w).ok
                /\ LineOfPoint(w).val = TrueLine(w.node, w.point)

\* C10: for a key at position i of the insertion order, after(k, count)
\* returns the value at position i + count and before(k, count) the value at
\* position i - count, whenever that position is inside the collection.
Thm_C10 ==
    \A i \in 1..Len(dl) :
        LET j == IF dl_call.op = "after" THEN i + dl_call.count
                 ELSE i - dl_call.count
        IN  (/\ dl_res.state \notin {"pending", "idle"}
             /\ dl[i].key = dl_call.k
             /\ 1 <= j /\ j <= Len(dl)) =>
                dl_res = Returned(dl[j].value)
\* test_before (src/test/test_utils.py): before('mid') with the default count
Witness_C10 ==
    /\ dl = << [key |-> "asdf", value |-> 15], [key |-> "mid", value |-> 1],
               [key |-> "arst", value |-> 1] >>
    /\ dl_call = [op |-> "before", k |-> "mid", count |-> 1]
    /\ dl_res = Returned(15)

\* C11 (as claimed): before(k, count) with index(k) - count < 0 and
\* after(k, count) with index(k) + count >= size raise an error; no value of
\* the collection is returned.
Claim_C11 ==
    \A i \in 1..Len(dl) :
        (/\ dl_res.state \notin {"pending", "idle"}
         /\ dl[i].key = dl_call.k
         /\ \/ dl_call.op = "before" /\ (i - 1) - dl_call.count < 0
            \/ dl_call.op = "after" /\ (i - 1) + dl_call.count >= Len(dl)) =>
            dl_res.state = "raised"

\* C12 (as claimed): global-next-node on the last node and global-prev-node on
\* the first node of the tag-table order change nothing in the window (node,
\* page_top, point) and the session keeps running.
Claim_C12 ==
    [][(/\ cur # -1 /\ act'.win # 0
        /\ \/ act'.name = "global-next-node" /\ CurWin.node = Len(Doc)
           \/ act'.name = "global-prev-node" /\ CurWin.node = 1)
       => (/\ status' = "running"
           /\ windows'[act'.win].node = CurWin.node
           /\ windows'[act'.win].page_top = CurWin.page_top
           /\ windows'[act'.win].point = CurWin.point)]_vars

\* C13: dispatching an action identifier that has no handler (a case whose
\* body is pass, or no case at all) changes no field of any window (node,
\* page_top, point, goal column, history), raises nothing, and the loop goes on.
Thm_C13 ==
    [][act'.name \in PassActs \cup UnmatchedActs
       => (windows' = windows /\ cur' = cur /\ height' = height
           /\ status' = "running")]_vars
\* an identifier without a case was dispatched in a session whose window had
\* moved point and taken a goal column
Witness_C13 ==
    /\ act.name \in UnmatchedActs /\ status = "running"
    /\ \E i \in 1..Len(windows) :
          windows[i].point # 0 /\ windows[i].goal_column # -1

\* C14 (as claimed): every action that changes a window's node pushes the
\* window's prior (node, page_top, point) onto its history: the stack grows by
\* one entry and its top is the state just before the navigation.
Claim_C14 ==
    [][Did(NodeActs) =>
        LET w == windows[act'.win]
            h == windows'[act'.win].hist
        IN  /\ Len(h) = Len(w.hist) + 1
            /\ h[Len(h)] = [node |-> w.node, page_top |-> w.page_top,
                            point |-> w.point]]_vars

\* the separator lines of f that open a node
FileNodeSeps(f) ==
    {i \in 1..(Len(f) - 1) : f[i].kind = "sep" /\ f[i + 1].kind = "header"}
\* the tag table read lists every node of the file once, in file order, each
\* with the offset of its separator or of its header line
SoundTable ==
    /\ Len(tags) = Cardinality(FileNodeSeps(contents))
    /\ \A j \in 1..Len(tags) :
          \E i \in FileNodeSeps(contents) :
             /\ contents[i + 1].name = tags[j].name
             /\ tags[j].nodestart \in {LineStart(contents, i),
                                       LineStart(contents, i) + SepLen}
    /\ \A j, k \in 1..Len(tags) :
          j < k => tags[j].nodestart < tags[k].nodestart
NodeLen(i) == nodes[i].value.end - nodes[i].value.start

\* C15 (as claimed): for every node but the last, the length of its contents
\* is the next node's start offset minus its own, and the last node's contents
\* run to the end of the document.
Claim_C15 ==
    (load.phase = "loaded" /\ SoundTable /\ Len(nodes) = Len(tags)) =>
        \A i \in 1..Len(nodes) :
            IF i < Len(nodes)
            THEN NodeLen(i) = nodes[i + 1].value.start - nodes[i].value.start
            ELSE nodes[i].value.end = FileLen(contents)

\* the tags whose node cannot be built
FailingTags == {j \in 1..Len(tags) : ~NodeOf(contents, tags[j]).ok}

\* C16 (as claimed): when building the node of one tag fails, loading still
\* completes and the node of every other tag is in the node collection.
Claim_C16 ==
    (load.phase \in {"loaded", "failed"} /\ load.error # "StopIteration"
     /\ FailingTags # {}) =>
        /\ load.phase = "loaded"
        /\ \A j \in 1..Len(tags) :
              j \notin FailingTags =>
                 \E i \in 1..Len(nodes) : nodes[i].key = tags[j].name

\* the separator lines the tail scan visits
TailSeps == SepsFrom(contents, FileLen(contents) - TailWindow)
\* no separator of the tail is followed by a first non-blank line that reads
\* "Tag Table:"
NoTableLabel ==
    /\ TailSeps # {}
    /\ \A s \in TailSeps :
          \/ NonBlankAfter(contents, s) = {}
          \/ contents[Min(NonBlankAfter(contents, s))].kind # "label"

\* C17 (as claimed): when the first non-blank line after the separator found
\* in the tail does not read "Tag Table:", or no non-blank line follows it,
\* the load ends with no tag and no node, and raises nothing.
Claim_C17 ==
    (load.phase \in {"loaded", "failed"} /\ NoTableLabel) =>
        load.phase = "loaded" /\ tags = <<>> /\ nodes = <<>>

\* the file has a tag table: the line "Tag Table:", the separator line before
\* it, and the entry lines that follow it up to the first line that is none
LabelLines == {i \in 1..Len(contents) : contents[i].kind = "label"}
TableSep == Max({i \in 1..Min(LabelLines) : contents[i].kind = "sep"})
TableEntryLines ==
    {j \in (Min(LabelLines) + 1)..Len(contents) :
        /\ contents[j].kind = "entry"
        /\ \A k \in (Min(LabelLines) + 1)..j :
              contents[k].kind \in {"entry", "blank"}}
\* the tags written in the table, in the order they are written
WrittenTags ==
    [m \in 1..Cardinality(TableEntryLines) |->
        LET j == CHOOSE j \in TableEntryLines :
                    Cardinality({k \in TableEntryLines : k < j}) = m - 1
        IN  [name |-> contents[j].name, nodestart |-> contents[j].num]]
TableInTail ==
    LineStart(contents, TableSep) >= FileLen(contents) - TailWindow

NodesFollowTags ==
    /\ Len(nodes) = Len(tags)
    /\ \A i \in 1..Len(tags) :
          /\ nodes[i].key = tags[i].name
          /\ nodes[i].value.name = tags[i].name
          /\ nodes[i].value.start = tags[i].nodestart
DistinctTagNames ==
    \A i, j \in 1..Len(tags) : i # j => tags[i].name # tags[j].name

\* C19 (as claimed): the node collection of a loaded file has one node per
\* tag, and its i-th node in iteration order is the node named by the i-th tag.
Claim_C19 == load.phase = "loaded" => NodesFollowTags

\* C19 (amended): the same, for a tag table that names no node twice.
Thm_C19 == (load.phase = "loaded" /\ DistinctTagNames) => NodesFollowTags
\* a file was loaded whose table lists two nodes against their order in the
\* file
Witness_C19 ==
    /\ load.phase = "loaded" /\ DistinctTagNames /\ Len(tags) = 2
    /\ tags[1].nodestart > tags[2].nodestart
    /\ nodes[1].key = tags[1].name

SameTarget(a, b) == a.filename = b.filename /\ a.nodename = b.nodename

\* C21: two references with the same (filename, nodename) compare equal and
\* hash equal whatever their offsets, label and line number, references that
\* differ in filename or nodename compare unequal, and a set of references
\* holds at most one reference per (filename, nodename).
Thm_C21 ==
    /\ \A a, b \in ret.set : SameTarget(a, b) => a = b
    /\ call.op = "add" =>
          \A e \in ret.set :
             /\ ReferenceEq(e, call.ref) <=> SameTarget(e, call.ref)
             /\ ReferenceEq(call.ref, e) <=> SameTarget(e, call.ref)
             /\ SameTarget(e, call.ref) =>
                   ReferenceHash(e) = ReferenceHash(call.ref)
\* a reference was added to a set that held one to the same target with
\* another position, label and line number, beside a reference to another
\* target with the same hash
Witness_C21 ==
    /\ call.op = "add" /\ call.ref \notin ret.set
    /\ \E e \in ret.set :
          /\ SameTarget(e, call.ref)
          /\ e.start # call.ref.start /\ e.label # call.ref.label
          /\ e.line_number # call.ref.line_number
    /\ \E e \in ret.set :
          ~SameTarget(e, call.ref) /\ ReferenceHash(e) = ReferenceHash(call.ref)

\* the values the header line gives for a group
Written(h, g) == { h[i].value : i \in { j \in 1..Len(h) : HeaderGroup(h[j].key) = g } }
Stored(r, g) == CASE g = 1 -> r.next [] g = 2 -> r.prev [] OTHER -> r.up

\* C22: when a node header has been parsed, each of Next, Prev and Up that the
\* header lacks is stored as the empty string, each that it has is stored with
\* the value written, and an Up of '(dir)' is stored as empty.
Thm_C22 ==
    (call.op = "scan" /\ ret.state = "returned") =>
       \A g \in 1..3 :
          /\ Written(call.header, g) = {} => Stored(ret, g) = ""
          /\ Written(call.header, g) # {} =>
                IF g = 3 /\ Written(call.header, g) = {"(dir)"}
                THEN Stored(ret, g) = ""
                ELSE Written(call.header, g) = {Stored(ret, g)}
\* the header of the sample's Top node: Next given, Prev missing, Up (dir)
Witness_C22 ==
    /\ call.op = "scan" /\ ret.state = "returned"
    /\ call.header = <<[key |-> "Next", value |-> "Invoking sample"],
                       [key |-> "Up", value |-> "(dir)"]>>
    /\ ret.next = "Invoking sample" /\ ret.prev = "" /\ ret.up = ""

\* the action the priority hard-coded > user config > defaults gives a key
TierAction(raw, config) ==
    IF raw \in DOMAIN hard_coded_keys THEN hard_coded_keys[raw]
    ELSE IF KeyName(raw) \in DOMAIN config THEN config[KeyName(raw)]
    ELSE default_keys[KeyName(raw)]
Bound(raw, config) ==
    \/ raw \in DOMAIN hard_coded_keys
    \/ KeyName(raw) \in DOMAIN config
    \/ KeyName(raw) \in DOMAIN default_keys

\* C23: a pressed key that some tier binds resolves to the hard-coded action
\* if there is one, else to the user-config action, else to the default one.
Claim_C23 ==
    (call.op = "key" /\ Bound(call.raw, opening.config)) =>
       ret = Returned(TierAction(call.raw, opening.config))

\* C24: while a session opens its initial references, each file is loaded
\* once (as many Documents were constructed as filenames are cached) and every
\* window shows a node of the Document cached under its file's name.
Claim_C24 ==
    opening.phase = "open" =>
       /\ opening.made = Cardinality(DOMAIN opening.loaded_buffers)
       /\ \A i \in 1..Len(opening.windows) :
             opening.windows[i].buffer =
                opening.loaded_buffers[opening.windows[i].filename]

\* the place, from 1, of the i-th key of d in insertion order, a negative i
\* counting from the end
Place(d, i) == IF i >= 0 THEN i + 1 ELSE Len(d) + i + 1
InOrder(d, i) == 0 - Len(d) <= i /\ i < Len(d)

\* C25: d[i] is the value of the i-th key in insertion order (a negative i
\* counting from the end), d[name] is the value of the key name, and d[i] = v
\* replaces the value of the i-th key and leaves the keys and their order and
\* the other values as they were.
Thm_C25 ==
    /\ (call.op = "getint" /\ InOrder(call.d, call.k)) =>
          ret = Returned(call.d[Place(call.d, call.k)].value)
    /\ call.op = "getstr" =>
          \A p \in 1..Len(call.d) :
             call.d[p].key = call.name => ret = Returned(call.d[p].value)
    /\ (call.op = "setint" /\ InOrder(call.d, call.k)) =>
          /\ ret.state = "returned"
          /\ DKeys(dl) = DKeys(call.d)
          /\ \A p \in 1..Len(dl) :
                dl[p].value = IF p = Place(call.d, call.k) THEN call.v
                              ELSE call.d[p].value
\* a negative index assigned a new value to a key that is neither the first
\* nor the last of three
Witness_C25 ==
    /\ call.op = "setint" /\ call.k = -2 /\ Len(call.d) = 3
    /\ call.d[2].value # call.v /\ dl[2].value = call.v
    /\ ret.state = "returned"

\* C26: after a node change in a window, line_starts is exactly the list of
\* start offsets of the lines of the node the window now shows, with nothing
\* left over from a node shown before.
Claim_C26 ==
    [][Did(NodeActs) =>
        windows'[act'.win].line_starts =
           TrueStarts(windows'[act'.win].node)]_vars

\* the distance between the page_top a window has and the one assigned
Distance(w, desired) ==
    IF w.page_top < ClampDesired(w, desired)
    THEN ClampDesired(w, desired) - w.page_top
    ELSE w.page_top - ClampDesired(w, desired)

\* C27: an assignment to page_top takes the partial-scroll path only when the
\* distance moved is more than 1 line and less than the window height; a
\* change of exactly 1 line or of at least the height never takes it.
Thm_C27 ==
    [][(Did(SetterActs) /\ refresh') =>
          /\ Distance(windows[act'.win], act'.arg) > 1
          /\ Distance(windows[act'.win], act'.arg) < height]_vars
\* an assignment of 2 to page_top on a screen of 3 lines took the
\* partial-scroll path
Witness_C27 ==
    /\ act.name \in SetterActs /\ act.win # 0 /\ status = "running"
    /\ refresh /\ height = 3 /\ act.arg = 2

\* the node of Doc without content lines: its header line only
Degenerate == CHOOSE n \in NodeIds : Doc[n].name = "Intro"
ViewportActs == {"page_top", "goto_percentage", "next-line", "prev-line"}

\* C28: a window on a node without content lines has line_count >= 1, and
\* every viewport operation on it (page_top assignment, goto_percentage,
\* next-line, prev-line, with the line_of_point they call) returns.
Claim_C28 ==
    [][(act'.name \in ViewportActs /\ act'.win # 0
        /\ windows[act'.win].node = Degenerate) =>
          /\ windows[act'.win].line_count >= 1
          /\ status' = "running"]_vars

\* the offsets of line l of node n, from its start up to the next line's
LineOffsets(n, l) ==
    LET ts == TrueStarts(n)
        from == ts[l + 1]
        to == IF l + 1 < Len(ts) THEN ts[l + 2] ELSE Len(Doc[n].contents)
    IN  [i \in 1..(to - from) |-> from + i - 1]

\* C29: whenever a window's line map has been computed anew, it records the
\* node the window shows and a line of it, and its offsets are exactly the
\* offsets of that one line, in ascending order, from the line's start up to,
\* not past, the start of the next line.
Claim_C29 ==
    [][\A i \in 1..Len(windows) :
          (status' = "running" /\ windows'[i].line_map # windows[i].line_map) =>
             LET w == windows'[i]
             IN  /\ w.line_map.node = w.node
                 /\ w.line_map.nline \in 0..(LineCountOf(w.node) - 1)
                 /\ w.line_map.offsets =
                       LineOffsets(w.node, w.line_map.nline)]_vars

\* the marker occurrences of a body: index tags followed by their "* Menu:",
\* the "* Menu:" lines that belong to no index tag, and the "* Note:" lines
IndexMarks(b) ==
    {i \in 1..Len(b) :
        b[i] = "index" /\ \E j \in (i + 1)..Len(b) :
           b[j] = "menu" /\ \A k \in (i + 1)..(j - 1) : b[k] = "blank"}
IndexMenus(b) ==
    {j \in 1..Len(b) :
        b[j] = "menu" /\ \E i \in IndexMarks(b) :
           i < j /\ \A k \in (i + 1)..(j - 1) : b[k] = "blank"}
MenuMarks(b) == {j \in 1..Len(b) : b[j] = "menu"} \ IndexMenus(b)
NoteMarks(b) == {j \in 1..Len(b) : b[j] = "note"}
DispatchedTo(r, source) ==
    {r.dispatched[k].line :
        k \in {m \in 1..Len(r.dispatched) : r.dispatched[m].source = source}}

\* C30: when the scan of a node's references has returned, every marker was
\* given to exactly one source, in the order of the text: the index markers
\* to Index, the other "* Menu:" lines to Menu, the "* Note:" markers to
\* XReference, and no "* Menu:" line of an index marker to Menu; and the
\* node's references are in the order of the markers they came from.
Thm_C30 ==
    (call.op = "refs" /\ ret.state = "returned") =>
       /\ \A k \in 1..(Len(ret.dispatched) - 1) :
             ret.dispatched[k].line < ret.dispatched[k + 1].line
       /\ DispatchedTo(ret, "Index") = IndexMarks(call.body)
       /\ DispatchedTo(ret, "Menu") = MenuMarks(call.body)
       /\ DispatchedTo(ret, "XReference") = NoteMarks(call.body)
       /\ \A k \in 1..Len(ret.dispatched) :
             ret.dispatched[k].line \notin IndexMenus(call.body)
       /\ \A k \in 1..(Len(ret.references) - 1) :
             ret.references[k].marker <= ret.references[k + 1].marker
\* an index (tag, "* Menu:", empty line, one entry, empty line): one source
\* was constructed, none for the "* Menu:" line, and the index gave its
\* reference
Witness_C30 ==
    /\ call.op = "refs" /\ ret.state = "returned"
    /\ call.body = <<"index", "menu", "blank", "ientry", "blank">>
    /\ ret.dispatched = <<[line |-> 1, source |-> "Index"]>>
    /\ ret.references = <<[source |-> "Index", marker |-> 1, line |-> 4]>>

\* C31: every reference extracted from an entry that carries no "(file)"
\* prefix has the name of the document that owns the node as its filename.
Claim_C31 ==
    (call.op = "entry" /\ ret.state = "returned" /\ call.entry.file = "") =>
       \A k \in 1..Len(ret.refs) : ret.refs[k].filename = call.doc

\* C32: after a change of a window's node, page_top and point are 0 and
\* line_count is the line count of the node now shown.
Claim_C32 ==
    [][Did(NodeActs) =>
        /\ windows'[act'.win].page_top = 0
        /\ windows'[act'.win].point = 0
        /\ windows'[act'.win].line_count =
              LineCountOf(windows'[act'.win].node)]_vars

\* the number of lines between the lines of offsets p and q of node n
LineDistance(n, p, q) ==
    IF TrueLine(n, p) < TrueLine(n, q) THEN TrueLine(n, q) - TrueLine(n, p)
    ELSE TrueLine(n, p) - TrueLine(n, q)

\* C33: after every step point is an offset of the node its window shows
\* (0 <= point <= len(contents)); a next-line or prev-line returns, and it
\* leaves point on the same line or on a neighbouring one, never at the
\* other end of the node.
Claim_C33 ==
    [][/\ \A i \in 1..Len(windows') :
             /\ 0 <= windows'[i].point
             /\ windows'[i].point <= Len(Doc[windows'[i].node].contents)
       /\ (act'.name \in Vertical /\ act'.win # 0) =>
             /\ status' = "running"
             /\ LineDistance(windows[act'.win].node, windows[act'.win].point,
                             windows'[act'.win].point) <= 1]_vars

MaxWindows == 10

\* C34: after a digit key the session still runs, the active window, once
\* set, is one of the session's windows, and there are at most 10 windows:
\* a digit beyond the last window leaves the active window as it was.
Claim_C34 ==
    [][act'.name = "digit" =>
          /\ status' = "running"
          /\ Len(windows') <= MaxWindows
          /\ cur' # -1 => cur' \in 0..(Len(windows') - 1)
          /\ act'.arg >= Len(windows) => cur' = cur]_vars

\* C35: a next-node (prev-node) key on a window whose node's header names
\* as Next (Prev) nothing, or no node of the document, leaves the window's
\* node, page_top and point as they were, and the session goes on.
Claim_C35 ==
    [][\A k \in {"next-node", "prev-node"} :
          LET w == windows[cur + 1]
              target == IF k = "next-node" THEN Doc[w.node].next
                        ELSE Doc[w.node].prev
          IN  (act'.name = k /\ cur # -1
               /\ \A n \in NodeIds : Doc[n].name # target) =>
                 /\ status' = "running"
                 /\ windows'[cur + 1].node = w.node
                 /\ windows'[cur + 1].page_top = w.page_top
                 /\ windows'[cur + 1].point = w.point]_vars

\* the start of the line of node n that holds offset p, and the candidates
\* for its last offset: its newline and the character before it
LineBegin(n, p) == TrueStarts(n)[TrueLine(n, p) + 1]
LineEnds(n, p) ==
    {LineBegin(n, p) + LineWidth(n, TrueLine(n, p)) - 1,
     Max({LineBegin(n, p), LineBegin(n, p) + LineWidth(n, TrueLine(n, p)) - 2})}

\* C36: in every reachable state beginning-of-line returns with point at the
\* start of the line that held point, and end-of-line with point at the last
\* offset of that line: neither moves point to another line.
Claim_C36 ==
    [][/\ (act'.name = "beginning-of-line" /\ act'.win # 0) =>
             /\ status' = "running"
             /\ windows'[act'.win].point =
                   LineBegin(windows[act'.win].node, windows[act'.win].point)
       /\ (act'.name = "end-of-line" /\ act'.win # 0) =>
             /\ status' = "running"
             /\ windows'[act'.win].point \in
                   LineEnds(windows[act'.win].node, windows[act'.win].point)]_vars
====
